---- MODULE Spec2Model ----
(***************************************************************************)
(* Model of practice.py: analyze_image_grouped_colors (the single-image    *)
(* analyzer) and analyze_folder_grouped_colors (the folder aggregator).    *)
(*                                                                         *)
(* File names are sequences of characters.  An image is a record           *)
(* [shape, data]: shape is the numpy shape <<h, w, channels>> (<<h, w>>    *)
(* for a grayscale image), data the h*w pixels in row order, each pixel a  *)
(* tuple of channel values <<b, g, r>> or <<b, g, r, a>>.  Python floats   *)
(* are modelled as exact rationals <<n, d>> in lowest terms.  cv2.imread   *)
(* and KMeans are external: the image read for a file and the clustering   *)
(* returned for a sample list are inputs of the call.  A clustering is any *)
(* assignment of the samples to the K clusters; the centroid of a cluster  *)
(* is the mean of its samples, and that of an empty cluster is one of the  *)
(* samples.  KMeans raises when there are fewer samples than clusters.     *)
(*                                                                         *)
(* Spec is one call of analyze_folder_grouped_colors, one action per loop  *)
(* iteration.  SpecImage is analyze_image_grouped_colors called on its     *)
(* own; img and analyzer show the image it read and its locals.            *)
(***************************************************************************)
EXTENDS Integers, Sequences, FiniteSets, TLC

\* ---------------------------------------------------------------- bounds
MaxFiles == 2      \* entries os.listdir returns at most
MaxPix == 2        \* pixels (h * w) of an image at most
MaxK == 2          \* n_clusters ranges over 1..MaxK

\* ------------------------------------------------------------ rationals
RECURSIVE GCD(_, _)
GCD(a, b) == IF b = 0 THEN a ELSE GCD(b, a % b)

Norm(n, d) == LET g == GCD(n, d) IN IF n = 0 THEN <<0, 1>> ELSE <<n \div g, d \div g>>

RInt(n) == <<n, 1>>

RAdd(x, y) == Norm(x[1] * y[2] + y[1] * x[2], x[2] * y[2])

RMul(x, y) == Norm(x[1] * y[1], x[2] * y[2])

RDiv(x, y) == Norm(x[1] * y[2], x[2] * y[1])

\* ------------------------------------------------------------ file names
IMG_PNG == <<"I", "M", "G", ".", "P", "N", "G">>

a_png == <<"a", ".", "p", "n", "g">>

img_jpg == <<"i", "m", "g", ".", "j", "p", "g">>

Names == {IMG_PNG, a_png, img_jpg}

PngSuffix == <<".", "p", "n", "g">>

LowerChar(ch) ==
  CASE ch = "I" -> "i" [] ch = "M" -> "m" [] ch = "G" -> "g"
    [] ch = "P" -> "p" [] ch = "N" -> "n" [] OTHER -> ch

Lower(s) == [i \in 1..Len(s) |-> LowerChar(s[i])]

EndsWith(s, suf) ==
  /\ Len(s) >= Len(suf)
  /\ SubSeq(s, Len(s) - Len(suf) + 1, Len(s)) = suf

\* the suffix test without lower()
IsPng_CaseSensitive(filename) == EndsWith(filename, PngSuffix)

IsPng(filename) == EndsWith(Lower(filename), PngSuffix)

Listings ==
  UNION {{s \in [1..n -> Names] : \A i, j \in 1..n : i # j => s[i] # s[j]} : n \in 0..MaxFiles}

\* ---------------------------------------------------------------- images
PixelColors == {<<0, 0, 0>>, <<1, 0, 0>>}

Alphas == {0, 255}

Pixel4 == {Append(c, a) : c \in PixelColors, a \in Alphas}

Shapes == {hw \in (1..MaxPix) \X (1..MaxPix) : hw[1] * hw[2] <= MaxPix}

ImgNone == [shape |-> <<>>, data |-> <<>>]

GrayImage == [shape |-> <<1, 1>>, data |-> <<0>>]

Images3 ==
  UNION {{[shape |-> <<hw[1], hw[2], 3>>, data |-> dt] : dt \in [1..(hw[1] * hw[2]) -> PixelColors]} : hw \in Shapes}

Images4 ==
  UNION {{[shape |-> <<hw[1], hw[2], 4>>, data |-> dt] : dt \in [1..(hw[1] * hw[2]) -> Pixel4]} : hw \in Shapes}

Images == {ImgNone, GrayImage} \cup Images3 \cup Images4

\* ------------------------------------------------------------- analyzer
\* the mask taken as alpha >= 0
Mask_NonNegative(im) == {i \in 1..Len(im.data) : im.data[i][4] >= 0}

Mask(im) == {i \in 1..Len(im.data) : im.data[i][4] > 0}

RECURSIVE Flatten(_, _, _)
Flatten(data, keep, n) ==
  IF n = 0 THEN <<>>
  ELSE IF n \in keep
       THEN Append(Flatten(data, keep, n - 1), SubSeq(data[n], 1, 3))
       ELSE Flatten(data, keep, n - 1)

ExtractPixels(im) ==
  IF im.shape[3] = 4
  THEN Flatten(im.data, Mask(im), Len(im.data))
  ELSE Flatten(im.data, 1..Len(im.data), Len(im.data))

RECURSIVE ChannelSum(_, _, _)
ChannelSum(pixels, members, ch) ==
  IF members = {} THEN 0
  ELSE LET p == CHOOSE x \in members : TRUE
       IN pixels[p][ch] + ChannelSum(pixels, members \ {p}, ch)

Mean(pixels, members) ==
  [ch \in 1..3 |-> Norm(ChannelSum(pixels, members, ch), Cardinality(members))]

Members(labels, i) == {p \in DOMAIN labels : labels[p] = i}

CentersFor(pixels, labels, K) ==
  LET samples == {Mean(pixels, {p}) : p \in 1..Len(pixels)}
      cands(i) == IF Members(labels, i) = {} THEN samples
                  ELSE {Mean(pixels, Members(labels, i))}
      all == UNION {cands(i) : i \in 0..(K - 1)}
  IN {c \in [0..(K - 1) -> all] : \A i \in 0..(K - 1) : c[i] \in cands(i)}

NoKMeans == [raised |-> FALSE, labels |-> <<>>, centers |-> <<>>]

KMeansRaised == [raised |-> TRUE, labels |-> <<>>, centers |-> <<>>]

KMeansOutcomes(pixels, K) ==
  IF Len(pixels) < K
  THEN {KMeansRaised}
  ELSE UNION {{[raised |-> FALSE, labels |-> l, centers |-> c] :
                 c \in CentersFor(pixels, l, K)} :
              l \in [1..Len(pixels) -> 0..(K - 1)]}

AsInt(center) == [ch \in 1..3 |-> center[ch][1] \div center[ch][2]]

ClusterCenters(km, K) == [i \in 0..(K - 1) |-> AsInt(km.centers[i])]

ClusterCounts(km, K) ==
  [i \in 0..(K - 1) |-> Cardinality(Members(km.labels, i))]

Percentage(count, total) == RMul(RDiv(RInt(count), RInt(total)), RInt(100))

DictSet(d, key, val) == [c \in DOMAIN d \cup {key} |-> IF c = key THEN val ELSE d[c]]

RECURSIVE ColorPercentages(_, _, _, _)
ColorPercentages(k, cluster_counts, cluster_centers, total) ==
  IF k = 0 THEN <<>>
  ELSE DictSet(ColorPercentages(k - 1, cluster_counts, cluster_centers, total),
               cluster_centers[k - 1],
               Percentage(cluster_counts[k - 1], total))

\* Locals of one analyzer call: none = the call returned None, d = the
\* dictionary returned otherwise, exc = the exception caught (if any).
Locals(none, d, pixels, called, exc, counts, centers) ==
  [none |-> none, d |-> d, pixels |-> pixels, total_pixels |-> Len(pixels),
   called |-> called, exc |-> exc, cluster_counts |-> counts,
   cluster_centers |-> centers]

NoCall == Locals(TRUE, <<>>, <<>>, FALSE, "", <<>>, <<>>)

ReachesKMeans(im) ==
  /\ im # ImgNone
  /\ Len(im.shape) >= 3
  /\ Len(ExtractPixels(im)) > 0

\* the analyzer without the total_pixels == 0 return: KMeans is handed an
\* empty sample list and raises
analyze_image_NoEmptyCheck(im, K, km) ==
  IF im = ImgNone THEN NoCall
  ELSE IF Len(im.shape) < 3
  THEN Locals(TRUE, <<>>, <<>>, FALSE, "IndexError", <<>>, <<>>)
  ELSE LET px == ExtractPixels(im)
       IN IF Len(px) = 0 \/ km.raised
          THEN Locals(TRUE, <<>>, px, TRUE, "ValueError", <<>>, <<>>)
          ELSE LET counts == ClusterCounts(km, K)
                   centers == ClusterCenters(km, K)
               IN Locals(FALSE, ColorPercentages(K, counts, centers, Len(px)),
                         px, TRUE, "", counts, centers)

analyze_image_grouped_colors(im, K, km) ==
  IF im = ImgNone THEN NoCall
  ELSE IF Len(im.shape) < 3
  THEN Locals(TRUE, <<>>, <<>>, FALSE, "IndexError", <<>>, <<>>)
  ELSE LET px == ExtractPixels(im)
       IN IF Len(px) = 0
          THEN Locals(FALSE, <<>>, px, FALSE, "", <<>>, <<>>)
          ELSE IF km.raised
               THEN Locals(TRUE, <<>>, px, TRUE, "ValueError", <<>>, <<>>)
               ELSE LET counts == ClusterCounts(km, K)
                        centers == ClusterCenters(km, K)
                    IN Locals(FALSE, ColorPercentages(K, counts, centers, Len(px)),
                              px, TRUE, "", counts, centers)

Returned(loc) == [none |-> loc.none, d |-> loc.d]

\* ----------------------------------------------------------- aggregator
Truthy(gp) == ~gp.none /\ DOMAIN gp.d # {}

CountPixels(im) ==
  IF im.shape[3] = 4 THEN Cardinality(Mask(im)) ELSE im.shape[1] * im.shape[2]

\* the pixel count added for every readable image, whatever the analyzer returned
WeightOf_AnyReadable(gp, im) ==
  IF im # ImgNone /\ Len(im.shape) >= 3 THEN CountPixels(im) ELSE 0

\* lines 84-92: what the entry adds to total_pixels_across_images
WeightOf(gp, im) == IF Truthy(gp) /\ im # ImgNone THEN CountPixels(im) ELSE 0

CounterGet(acc, color) == IF color \in DOMAIN acc THEN acc[color] ELSE RInt(0)

\* assignment instead of +=
CounterAdd_Overwrite(acc, color, count) == DictSet(acc, color, count)

CounterAdd(acc, color, count) == DictSet(acc, color, RAdd(CounterGet(acc, color), count))

RECURSIVE AccumulateItems(_, _, _, _)
AccumulateItems(acc, d, keys, n) ==
  IF keys = {} THEN acc
  ELSE LET color == CHOOSE c \in keys : TRUE
       IN AccumulateItems(
            CounterAdd(acc, color, RMul(RDiv(d[color], RInt(100)), RInt(n))),
            d, keys \ {color}, n)

Accumulate(acc, gp, im) ==
  IF Truthy(gp) /\ im # ImgNone
  THEN AccumulateItems(acc, gp.d, DOMAIN gp.d, CountPixels(im))
  ELSE acc

Overall(acc, total) ==
  [color \in DOMAIN acc |-> RMul(RDiv(acc[color], RInt(total)), RInt(100))]

\* ---------------------------------------------------------------- state
VARIABLES listing, n_clusters, idx, pc, all_cluster_counts,
          total_pixels_across_images, hist, ret, img, analyzer

vars == <<listing, n_clusters, idx, pc, all_cluster_counts,
          total_pixels_across_images, hist, ret, img, analyzer>>

Init ==
  /\ listing \in Listings
  /\ n_clusters \in 1..MaxK
  /\ idx = 0
  /\ pc = "loop"
  /\ all_cluster_counts = <<>>
  /\ total_pixels_across_images = 0
  /\ hist = <<>>
  /\ ret = <<>>
  /\ img = ImgNone
  /\ analyzer = NoCall

\* hist records, per directory entry already iterated, whether the analyzer
\* was invoked on it, what it returned, the colours and the number of the
\* samples it took, the pixel count the aggregator recomputed, and the
\* accumulators as they were before the entry.
Entry(filename, analyzed, loc, im) ==
  [filename |-> filename, analyzed |-> analyzed, gp |-> Returned(loc),
   colors |-> {loc.pixels[i] : i \in 1..Len(loc.pixels)},
   n |-> loc.total_pixels,
   weight |-> IF analyzed THEN WeightOf(Returned(loc), im) ELSE 0,
   counts_before |-> all_cluster_counts,
   total_before |-> total_pixels_across_images]

\* line 80 false: the entry is not a .png
SkipEntry ==
  /\ pc = "loop"
  /\ idx < Len(listing)
  /\ ~IsPng(listing[idx + 1])
  /\ idx' = idx + 1
  /\ hist' = Append(hist, Entry(listing[idx + 1], FALSE, NoCall, ImgNone))
  /\ UNCHANGED <<listing, n_clusters, pc, all_cluster_counts,
                 total_pixels_across_images, ret, img, analyzer>>

\* lines 80-97: a .png entry is analyzed and, if the result is truthy, accumulated
AnalyzeEntry ==
  /\ pc = "loop"
  /\ idx < Len(listing)
  /\ IsPng(listing[idx + 1])
  /\ \E im \in Images :
       \E km \in (IF ReachesKMeans(im)
                  THEN KMeansOutcomes(ExtractPixels(im), n_clusters)
                  ELSE {NoKMeans}) :
         LET loc == analyze_image_grouped_colors(im, n_clusters, km)
             gp == Returned(loc)
         IN /\ total_pixels_across_images' =
                 total_pixels_across_images + WeightOf(gp, im)
            /\ all_cluster_counts' = Accumulate(all_cluster_counts, gp, im)
            /\ hist' = Append(hist, Entry(listing[idx + 1], TRUE, loc, im))
  /\ idx' = idx + 1
  /\ UNCHANGED <<listing, n_clusters, pc, ret, img, analyzer>>

\* lines 99-100
ReturnEmpty ==
  /\ pc = "loop"
  /\ idx = Len(listing)
  /\ total_pixels_across_images = 0
  /\ ret' = <<>>
  /\ pc' = "done"
  /\ UNCHANGED <<listing, n_clusters, idx, all_cluster_counts,
                 total_pixels_across_images, hist, img, analyzer>>

\* lines 102-106
ReturnOverall ==
  /\ pc = "loop"
  /\ idx = Len(listing)
  /\ total_pixels_across_images # 0
  /\ ret' = Overall(all_cluster_counts, total_pixels_across_images)
  /\ pc' = "done"
  /\ UNCHANGED <<listing, n_clusters, idx, all_cluster_counts,
                 total_pixels_across_images, hist, img, analyzer>>

Next == SkipEntry \/ AnalyzeEntry \/ ReturnEmpty \/ ReturnOverall

Spec == Init /\ [][Next]_vars

\* ------------------------------------------- the analyzer called on its own
InitImage ==
  /\ listing = <<>>
  /\ n_clusters \in 1..MaxK
  /\ idx = 0
  /\ pc = "loop"
  /\ all_cluster_counts = <<>>
  /\ total_pixels_across_images = 0
  /\ hist = <<>>
  /\ ret = <<>>
  /\ img = ImgNone
  /\ analyzer = NoCall

\* lines 7-57: one call of analyze_image_grouped_colors
AnalyzeImage ==
  /\ pc = "loop"
  /\ pc' = "done"
  /\ \E im \in Images :
       \E km \in (IF ReachesKMeans(im)
                  THEN KMeansOutcomes(ExtractPixels(im), n_clusters)
                  ELSE {NoKMeans}) :
         /\ img' = im
         /\ analyzer' = analyze_image_grouped_colors(im, n_clusters, km)
  /\ UNCHANGED <<listing, n_clusters, idx, all_cluster_counts,
                 total_pixels_across_images, hist, ret>>

NextImage == AnalyzeImage

SpecImage == InitImage /\ [][NextImage]_vars

\* ------------------------------------------------- the whole pass as a fold
\* lines 75-106 applied to a sequence of entries whose analyzer result and
\* included-pixel count are given
RECURSIVE FoldEntries(_, _)
FoldEntries(h, k) ==
  IF k = 0 THEN [acc |-> <<>>, total |-> 0]
  ELSE LET prev == FoldEntries(h, k - 1)
           e == h[k]
       IN IF e.analyzed /\ Truthy(e.gp)
          THEN [acc |-> AccumulateItems(prev.acc, e.gp.d, DOMAIN e.gp.d, e.weight),
                total |-> prev.total + e.weight]
          ELSE prev

AggregateFolder(h) ==
  LET f == FoldEntries(h, Len(h))
  IN IF f.total = 0 THEN <<>> ELSE Overall(f.acc, f.total)

\* ------------------------------------------------------------ properties
RECURSIVE SumVals(_, _)
SumVals(d, keys) ==
  IF keys = {} THEN RInt(0)
  ELSE LET c == CHOOSE x \in keys : TRUE
       IN RAdd(d[c], SumVals(d, keys \ {c}))

Hundred == <<100, 1>>

IsDistribution(d) ==
  /\ \A c \in DOMAIN d : d[c][1] >= 0 /\ d[c][2] > 0
  /\ SumVals(d, DOMAIN d) = Hundred

Failed(e) == e.analyzed /\ e.gp.none

Processed == {i \in 1..Len(hist) : hist[i].analyzed}

\* C1: whenever the analyzer returns a distribution for an image with N > 0
\* included pixels, every percentage is non-negative and they sum to 100.
C1_AnalyzerPercentagesSumTo100 ==
  (~analyzer.none /\ analyzer.total_pixels > 0) => IsDistribution(analyzer.d)

\* C2: a folder of two images whose included pixels all have colour C, each
\* analyzed successfully, aggregates to exactly {C: 100.0} for every K.
C2_UniformFolderIsAllC ==
  \A C \in PixelColors :
    (/\ pc = "done"
     /\ Cardinality(Processed) = 2
     /\ \A i \in Processed : hist[i].colors = {C} /\ ~hist[i].gp.none)
    => (DOMAIN ret = {C} /\ ret[C] = Hundred)

RECURSIVE MergedShare(_, _)
MergedShare(k, color) ==
  IF k = 0 THEN RInt(0)
  ELSE RAdd(MergedShare(k - 1, color),
            IF analyzer.cluster_centers[k - 1] = color
            THEN Percentage(analyzer.cluster_counts[k - 1], analyzer.total_pixels)
            ELSE RInt(0))

RECURSIVE ContributedCount(_, _)
ContributedCount(k, color) ==
  IF k = 0 THEN RInt(0)
  ELSE RAdd(ContributedCount(k - 1, color),
            IF Truthy(hist[k].gp) /\ color \in DOMAIN hist[k].gp.d
            THEN RMul(RDiv(hist[k].gp.d[color], Hundred), RInt(hist[k].weight))
            ELSE RInt(0))

MergedAcrossImages ==
  \A color \in DOMAIN all_cluster_counts :
    all_cluster_counts[color] = ContributedCount(Len(hist), color)

\* C3: clusters rounding to the same colour merge under one key: within an
\* image the colour's percentage is the sum of the shares of all clusters with
\* that rounded centroid, and across images the accumulated count is the sum
\* of the counts every image contributed.
C3_CollidingClustersMerge ==
  /\ (analyzer.called /\ ~analyzer.none) =>
       \A color \in DOMAIN analyzer.d :
         analyzer.d[color] = MergedShare(n_clusters, color)
  /\ MergedAcrossImages

\* C4: a .png entry for which the analyzer returns None does not stop the
\* pass, and the returned distribution is the one returned for the folder
\* without the failing entries.
C4_FailedEntriesContributeNothing ==
  pc = "done" =>
    /\ Len(hist) = Len(listing)
    /\ \A i \in 1..Len(hist) : IsPng(listing[i]) => hist[i].analyzed
    /\ ret = AggregateFolder(SelectSeq(hist, LAMBDA e : ~Failed(e)))

C4_Witness ==
  /\ pc = "done"
  /\ \E i, j \in 1..Len(hist) :
       /\ Failed(hist[i]) /\ i < j
       /\ Truthy(hist[j].gp)
  /\ ret # <<>>

FullyTransparent(im) ==
  /\ im # ImgNone
  /\ Len(im.shape) = 3
  /\ im.shape[3] = 4
  /\ \A i \in 1..Len(im.data) : im.data[i][4] = 0

\* C5: a decoded image with zero included pixels yields the empty
\* distribution, not None, without clustering; None is returned only when
\* decoding fails or an exception is raised.
C5_TransparentImageIsEmptyNotNone ==
  /\ FullyTransparent(img) =>
       (~analyzer.none /\ analyzer.d = <<>> /\ ~analyzer.called
        /\ Returned(analyzer) = [none |-> FALSE, d |-> <<>>])
  /\ analyzer.none => (img = ImgNone \/ analyzer.exc # "")

C5_Witness ==
  /\ FullyTransparent(img)
  /\ Len(img.data) >= 2

HasAlpha(im) == Len(im.shape) = 3 /\ im.shape[3] = 4

Included(im) == {i \in 1..Len(im.data) : HasAlpha(im) => im.data[i][4] > 0}

\* C7: a pixel is sampled iff its alpha is > 0 (every pixel of a 3-channel
\* image), the analyzer's total_pixels is the number of such pixels, and
\* the count the aggregator recomputes for the file is the same number.
C7_AlphaZeroExcluded ==
  (img # ImgNone /\ Len(img.shape) = 3) =>
    /\ analyzer.total_pixels = Cardinality(Included(img))
    /\ Len(analyzer.pixels) = analyzer.total_pixels
    /\ \A c \in PixelColors :
         Cardinality({i \in 1..Len(analyzer.pixels) : analyzer.pixels[i] = c})
           = Cardinality({i \in Included(img) : SubSeq(img.data[i], 1, 3) = c})
    /\ Truthy(Returned(analyzer)) => CountPixels(img) = analyzer.total_pixels

C7_Witness ==
  /\ HasAlpha(img)
  /\ Included(img) # {}
  /\ Included(img) # 1..Len(img.data)
  /\ Truthy(Returned(analyzer))
  /\ CountPixels(img) = 1

CountsAfter(i) ==
  IF i < Len(hist) THEN hist[i + 1].counts_before ELSE all_cluster_counts

TotalAfter(i) ==
  IF i < Len(hist) THEN hist[i + 1].total_before ELSE total_pixels_across_images

\* C8: the analyzer is invoked on exactly the entries whose lowercased name
\* ends with ".png": IMG.PNG is analyzed, img.jpg is not and leaves the
\* accumulator and the grand total as they were.
C8_SuffixSelectsEntries ==
  \A i \in 1..Len(hist) :
    /\ hist[i].filename = listing[i]
    /\ hist[i].analyzed <=> hist[i].filename \in {IMG_PNG, a_png}
    /\ hist[i].filename = img_jpg =>
         (CountsAfter(i) = hist[i].counts_before /\ TotalAfter(i) = hist[i].total_before)

C8_Witness ==
  /\ Len(hist) = 2
  /\ hist[1].filename = IMG_PNG /\ Truthy(hist[1].gp)
  /\ hist[2].filename = img_jpg /\ ~hist[2].analyzed
  /\ all_cluster_counts # <<>>

\* C6: a non-empty aggregate (grand total > 0) has non-negative percentages
\* that sum to 100.
C6_AggregatePercentagesSumTo100 ==
  (pc = "done" /\ total_pixels_across_images > 0) => IsDistribution(ret)

NothingUsable ==
  \A i \in 1..Len(hist) :
    ~hist[i].analyzed \/ hist[i].gp.none \/ DOMAIN hist[i].gp.d = {}

\* C9: when no entry qualifies, or every analyzer result is None or {}, the
\* aggregator returns {} and the grand total is 0 at the end of the pass.
C9_NothingUsableGivesEmpty ==
  (pc = "done" /\ NothingUsable) =>
    (ret = <<>> /\ total_pixels_across_images = 0)

C9_Witness ==
  /\ pc = "done"
  /\ NothingUsable
  /\ \E i, j \in 1..Len(hist) :
       /\ Failed(hist[i]) /\ hist[i].colors # {}
       /\ hist[j].analyzed /\ ~hist[j].gp.none

Orders(n) == {p \in [1..n -> 1..n] : \A i, j \in 1..n : i # j => p[i] # p[j]}

\* C10: for fixed per-file analyzer results and included-pixel counts, every
\* order of the directory entries gives the same returned mapping.
C10_OrderIndependent ==
  pc = "done" =>
    \A p \in Orders(Len(hist)) :
      AggregateFolder([i \in 1..Len(hist) |-> hist[p[i]]]) = ret

C10_Witness ==
  /\ pc = "done"
  /\ Len(hist) >= 2
  /\ Truthy(hist[1].gp) /\ Truthy(hist[2].gp)
  /\ hist[1].weight # hist[2].weight
  /\ \E c \in DOMAIN hist[1].gp.d : c \in DOMAIN hist[2].gp.d
====
